---- MODULE Spec2Model ----
(***************************************************************************)
(* Model of the MapLibre layer control: the panel (LayerControl), its rows *)
(* (LayerItem), its groups (LayerGroupItem), the map adapter               *)
(* (useMapLayers) and the demo host's basemap rule (demo/App.vue).         *)
(*                                                                         *)
(* A handler runs to completion in one step.  While it runs it threads a   *)
(* "world" record w = [layers, mapLayers, effects, threw] through          *)
(* the calls it makes; effects is the ordered log of what the handler did  *)
(* (descriptor writes, map calls, diagnostics, notifications) and is kept  *)
(* in the variable last for the handler that ran most recently.            *)
(***************************************************************************)
EXTENDS Integers, Sequences, FiniteSets, TLC

\* ------------------------------------------------------------------ values

Null == "null"

\* layer.metadata left out: a metadata object owns the optional members it
\* was given (description, tags) and no others.
NoMetadata == <<>>

\* LayerType of src/types/layer.ts
LayerType ==
    {"raster", "vector", "geojson", "fill", "line", "symbol", "circle",
     "heatmap", "fill-extrusion", "hillshade"}

\* Strings a host written in plain JavaScript can put in layer.type although
\* they are outside LayerType: a MapLibre layer type the enumeration omits,
\* and the name of a member every object literal inherits.
OtherTypeStrings == {"background", "constructor"}

TypeStrings == LayerType \cup OtherTypeStrings

\* ------------------------------------------------------- useMapLayers.ts

\* The object literal of getOpacityProperty: its own keys ...
opacityMap ==
    [t \in {"raster", "fill", "line", "circle", "symbol", "fill-extrusion",
            "heatmap", "hillshade"} |->
        CASE t = "raster" -> "raster-opacity"
          [] t = "fill" -> "fill-opacity"
          [] t = "line" -> "line-opacity"
          [] t = "circle" -> "circle-opacity"
          [] t = "symbol" -> "icon-opacity"
          [] t = "fill-extrusion" -> "fill-extrusion-opacity"
          [] t = "heatmap" -> "heatmap-opacity"
          [] t = "hillshade" -> "hillshade-illumination-anchor"]

\* ... and what opacityMap[type] reads for a key the literal does not own:
\* the member inherited from Object.prototype (a function, truthy) when the
\* string names one, undefined (falsy) otherwise.
InheritedMember == [k \in {"constructor"} |-> "function Object"]

opacityMapLookup(type) ==
    IF type \in DOMAIN opacityMap THEN opacityMap[type]
    ELSE IF type \in DOMAIN InheritedMember THEN InheritedMember[type]
    ELSE Null

\* A table that dims a symbol layer's text instead of its icon
getOpacityProperty_TextOpacity(type) ==
    IF type = "symbol" THEN "text-opacity" ELSE opacityMapLookup(type)

\* opacityMap[type] || null
getOpacityProperty(type) == opacityMapLookup(type)

RECURSIVE Gcd(_, _)
Gcd(a, b) == IF b = 0 THEN a ELSE Gcd(b, a % b)

\* An integer division in place of the exact one
Quotient_Integer(n, d) == [num |-> n \div d, den |-> 1]

\* opacity / 100 as the exact quotient in lowest terms (the division is
\* correctly rounded, so the double it yields is the one the quotient names).
Hundred == 100
Quotient(n, d) ==
    LET g == Gcd(n, d) IN
    IF g = 0 THEN [num |-> 0, den |-> 1] ELSE [num |-> n \div g, den |-> d \div g]


\* ------------------------------------------------------------ the world

VARIABLES
    layers,        \* the host's layer array: a sequence of layer descriptors
    groups,        \* the host's group array; group.layers holds layer ids
    localLayers,   \* LayerControl.localLayers: the ids of the layers it holds
    localGroups,   \* LayerControl.localGroups: the groups it holds
    localVisible,  \* LayerItem.localVisible of each row, by layer id
    localOpacity,  \* LayerItem.localOpacity of each row, by layer id
    mapReady,      \* useMapLayers.mapReady
    mapLayers,     \* the map's style layers: id -> [visibility, paint]
    mapOrder,      \* the ids of the map's style layers, bottom of the stack first
    props,         \* LayerControl's display toggles, set by the host
    searchQuery,   \* LayerControl.searchQuery: a sequence of characters
    isCollapsed,   \* LayerControl.isCollapsed
    slides,        \* how many slider inputs the user has made
    last           \* the handler that ran most recently and what it did

vars == <<layers, groups, localLayers, localGroups, localVisible, localOpacity, mapReady, mapLayers,
          mapOrder, props, searchQuery, isCollapsed, slides, last>>

LayerIdsOf(ls) == {ls[i].id : i \in DOMAIN ls}
IndexOf(ls, id) == CHOOSE i \in DOMAIN ls : ls[i].id = id
LayerOf(ls, id) == ls[IndexOf(ls, id)]

\* One entry of the log of a handler run.
Effect(by, kind, name, id, prop, value, ok) ==
    [by |-> by, kind |-> kind, name |-> name, layer |-> id, prop |-> prop,
     value |-> value, ok |-> ok]

Do(w, e) == [w EXCEPT !.effects = Append(@, e)]

\* console.warn / console.error
Diagnostic(w, level, id) == Do(w, Effect("panel", "log", level, id, Null, Null, TRUE))

\* A write that lands in the descriptor's name, as the empty text
WriteField_Name(w, by, id, field, v) ==
    Do([w EXCEPT !.layers[IndexOf(w.layers, id)].name = <<>>],
       Effect(by, "write", field, id, Null, v, TRUE))

\* layer.visible = v / layer.opacity = v through the shared reference; the
\* log entry keeps the value written over in prop.
WriteField(w, by, id, field, v) ==
    LET i == IndexOf(w.layers, id)
        w1 == IF field = "visible"
              THEN [w EXCEPT !.layers[i].visible = v]
              ELSE [w EXCEPT !.layers[i].opacity = v]
        old == IF field = "visible" THEN w.layers[i].visible ELSE w.layers[i].opacity
    IN Do(w1, Effect(by, "write", field, id, old, v, TRUE))

\* map.setLayoutProperty(id, 'visibility', value), which may throw
MapSetLayoutProperty(w, by, id, value, fail) ==
    LET w1 == Do(w, Effect(by, "map", "setLayoutProperty", id, "visibility", value, ~fail))
    IN IF fail THEN w1 ELSE [w1 EXCEPT !.mapLayers[id].visibility = value]

\* map.setPaintProperty(id, prop, value), which may throw
MapSetPaintProperty(w, by, id, prop, value, fail) ==
    LET w1 == Do(w, Effect(by, "map", "setPaintProperty", id, prop, value, ~fail))
    IN IF fail THEN w1 ELSE [w1 EXCEPT !.mapLayers[id].paint = <<prop, value>>]

\* map.flyTo({center, zoom: map.getZoom() + 1, duration: 1000}), which may
\* throw; it starts an animation and leaves the camera as it is on return.
MapFlyTo(w, id, fail) ==
    Do(w, Effect("panel", "map", "flyTo", id, "zoom", "getZoom() + 1", ~fail))

\* toggleLayerVisibility without its map.getLayer check
toggleLayerVisibility_NoLayerCheck(w, id, visible, fail) ==
    IF ~mapReady THEN Diagnostic(w, "warn", id)
    ELSE Diagnostic(
             Do(w, Effect("panel", "map", "setLayoutProperty", id, "visibility",
                          IF visible THEN "visible" ELSE "none",
                          id \in DOMAIN w.mapLayers)),
             "error", id)

toggleLayerVisibility(w, id, visible, fail) ==
    IF ~mapReady THEN Diagnostic(w, "warn", id)
    ELSE IF id \notin DOMAIN w.mapLayers THEN Diagnostic(w, "error", id)
    ELSE LET w1 == MapSetLayoutProperty(w, "panel", id,
                       IF visible THEN "visible" ELSE "none", fail)
         IN IF fail THEN Diagnostic(w1, "error", id) ELSE w1

updateLayerOpacity(w, id, opacity, fail) ==
    IF ~mapReady THEN Diagnostic(w, "warn", id)
    ELSE IF id \notin DOMAIN w.mapLayers THEN Diagnostic(w, "error", id)
    ELSE LET opacityValue == Quotient(opacity, Hundred)
             opacityProperty == getOpacityProperty(LayerOf(w.layers, id).type)
         IN IF opacityProperty = Null THEN Diagnostic(w, "warn", id)
            ELSE LET w1 == MapSetPaintProperty(w, "panel", id, opacityProperty,
                               opacityValue, fail)
                 IN IF fail THEN Diagnostic(w1, "error", id) ELSE w1

\* flyTo is not guarded: when it throws, zoomToLayer throws.
zoomToLayer(w, id, fail) ==
    IF ~mapReady \/ id \notin DOMAIN w.mapLayers THEN Diagnostic(w, "warn", id)
    ELSE LET w1 == MapFlyTo(w, id, fail)
         IN IF fail THEN [w1 EXCEPT !.threw = TRUE] ELSE w1

Range(seq) == {seq[i] : i \in DOMAIN seq}

PositionIn(seq, x) == CHOOSE i \in DOMAIN seq : seq[i] = x

\* map.moveLayer(id, beforeId) on the style's layer order (bottom of the
\* stack first): id is taken out and put back right before beforeId, that
\* is directly beneath it; without a beforeId it is put at the end of the
\* order, above every other layer.
MapMoveLayer(order, id, beforeId) ==
    IF id \notin Range(order) \/ id = beforeId THEN order
    ELSE LET rest == SelectSeq(order, LAMBDA x : x # id) IN
         IF beforeId = Null THEN Append(rest, id)
         ELSE IF beforeId \notin Range(rest) THEN rest
         ELSE LET k == PositionIn(rest, beforeId) IN
              SubSeq(rest, 1, k - 1) \o <<id>> \o SubSeq(rest, k, Len(rest))

Reverse(seq) == [i \in 1 .. Len(seq) |-> seq[Len(seq) + 1 - i]]

\* reversedLayers.forEach((layer, index) => ...) of updateLayerOrder, from
\* the entry at position i (index i - 1); w = [mapOrder, effects]
RECURSIVE updateLayerOrderFrom(_, _, _)
updateLayerOrderFrom(w, reversedLayers, i) ==
    IF i > Len(reversedLayers) THEN w
    ELSE LET id == reversedLayers[i]
             moved(beforeId) ==
                 [mapOrder |-> MapMoveLayer(w.mapOrder, id, beforeId),
                  effects |-> Append(w.effects,
                      Effect("panel", "map", "moveLayer", id, beforeId, Null, TRUE))]
         IN IF id \notin Range(w.mapOrder)
            THEN updateLayerOrderFrom(w, reversedLayers, i + 1)
            ELSE IF i = 1
            THEN updateLayerOrderFrom(moved(Null), reversedLayers, i + 1)
            ELSE IF reversedLayers[i - 1] \in Range(w.mapOrder)
            THEN updateLayerOrderFrom(moved(reversedLayers[i - 1]), reversedLayers, i + 1)
            ELSE updateLayerOrderFrom(w, reversedLayers, i + 1)

\* updateLayerOrder(layers), for the ids of layers in the requested order
updateLayerOrder(w, ids) ==
    IF ~mapReady THEN w ELSE updateLayerOrderFrom(w, Reverse(ids), 1)

\* --------------------------------------------------------- demo/App.vue

\* A rule that does not know the terrain basemap
basemapIds_Two == {"osm-base", "satellite-base"}

basemapIds == {"osm-base", "satellite-base", "terrain-base"}

\* The rule without its basemap test: every other layer is turned off
RECURSIVE BasemapsOff_EveryOther(_, _, _)
BasemapsOff_EveryOther(w, layerId, i) ==
    IF i > Len(w.layers) THEN w
    ELSE IF w.layers[i].id = layerId
    THEN BasemapsOff_EveryOther(w, layerId, i + 1)
    ELSE BasemapsOff_EveryOther(
             WriteField(w, "host", w.layers[i].id, "visible", FALSE), layerId, i + 1)

\* layers.value.forEach(layer => ...) of handleBasemapChange, from index i
RECURSIVE BasemapsOff(_, _, _)
BasemapsOff(w, layerId, i) ==
    IF i > Len(w.layers) THEN w
    ELSE LET id == w.layers[i].id IN
         IF id \in basemapIds /\ id # layerId
         THEN LET w1 == WriteField(w, "host", id, "visible", FALSE)
                  w2 == IF id \in DOMAIN w1.mapLayers
                        THEN MapSetLayoutProperty(w1, "host", id, "none", FALSE)
                        ELSE w1
              IN BasemapsOff(w2, layerId, i + 1)
         ELSE BasemapsOff(w, layerId, i + 1)

\* A host without the basemap rule
handleBasemapChange_None(w, layerId, visible) == w

handleBasemapChange(w, layerId, visible) ==
    IF ~visible \/ layerId \notin basemapIds THEN w
    ELSE BasemapsOff(w, layerId, 1)

\* The host's listeners run inside emit.
HostListener(w, event, id, value) ==
    IF event = "layer-visibility-change" THEN handleBasemapChange(w, id, value)
    ELSE w

\* ------------------------------------------------------ LayerControl

emit(w, event, id, value) ==
    HostListener(Do(w, Effect("panel", "emit", event, id, Null, value, TRUE)),
                 event, id, value)

\* A statement after a throw does not run.
Then(w, next) == IF w.threw THEN w ELSE next

\* handleLayerVisibilityChange notifying the host before it writes
handleLayerVisibilityChange_NotifyFirst(w, id, visible, fail) ==
    LET w1 == emit(w, "layer-visibility-change", id, visible)
        w2 == WriteField(w1, "panel", id, "visible", visible)
    IN toggleLayerVisibility(w2, id, visible, fail)

handleLayerVisibilityChange(w, id, visible, fail) ==
    LET w1 == WriteField(w, "panel", id, "visible", visible)
        w2 == toggleLayerVisibility(w1, id, visible, fail)
    IN Then(w2, emit(w2, "layer-visibility-change", id, visible))

handleLayerOpacityChange(w, id, opacity, fail) ==
    LET w1 == WriteField(w, "panel", id, "opacity", opacity)
        w2 == updateLayerOpacity(w1, id, opacity, fail)
    IN Then(w2, emit(w2, "layer-opacity-change", id, opacity))

handleZoomToLayer(w, id, fail) ==
    LET w1 == zoomToLayer(w, id, fail)
    IN Then(w1, emit(w1, "layer-zoom", id, Null))

handleLayerInfo(w, id) == emit(w, "layer-info", id, Null)

\* group.layers.forEach(layer => ...) of toggleGroupLayers, from index i
RECURSIVE toggleGroupLayersFrom(_, _, _, _, _)
toggleGroupLayersFrom(w, members, visible, fail, i) ==
    IF i > Len(members) \/ w.threw THEN w
    ELSE LET id == members[i] IN
         IF LayerOf(w.layers, id).toggleable # FALSE
         THEN toggleGroupLayersFrom(
                  handleLayerVisibilityChange(w, id, visible, fail),
                  members, visible, fail, i + 1)
         ELSE toggleGroupLayersFrom(w, members, visible, fail, i + 1)

\* toggleGroupLayers stopping after the group's first member
toggleGroupLayers_FirstOnly(w, members, visible, fail) ==
    toggleGroupLayersFrom(w, SubSeq(members, 1, 1), visible, fail, 1)

toggleGroupLayers(w, members, visible, fail) ==
    toggleGroupLayersFrom(w, members, visible, fail, 1)

\* Text is a sequence of one-character strings.  String.prototype.toLowerCase
\* maps the capital letters and leaves every other character as it is.
LowerCaseOf == [c \in {"A", "B", "C"} |->
                   CASE c = "A" -> "a" [] c = "B" -> "b" [] c = "C" -> "c"]

\* toLowerCase as the identity
toLowerCase_AsIs(s) == s

RECURSIVE toLowerCase(_)
toLowerCase(s) ==
    IF Len(s) = 0 THEN <<>>
    ELSE << IF Head(s) \in DOMAIN LowerCaseOf THEN LowerCaseOf[Head(s)] ELSE Head(s) >>
         \o toLowerCase(Tail(s))

WhiteSpace == {" "}

\* String.prototype.trim
RECURSIVE trimStart(_)
trimStart(s) ==
    IF Len(s) > 0 /\ s[1] \in WhiteSpace THEN trimStart(Tail(s)) ELSE s

RECURSIVE trimEnd(_)
trimEnd(s) ==
    IF Len(s) > 0 /\ s[Len(s)] \in WhiteSpace
    THEN trimEnd(SubSeq(s, 1, Len(s) - 1)) ELSE s

\* trim as the identity
trim_None(s) == s

trim(s) == trimEnd(trimStart(s))

\* String.prototype.includes
includes(s, q) ==
    \E i \in 0 .. (Len(s) - Len(q)) : SubSeq(s, i + 1, i + Len(q)) = q

\* layer.name.toLowerCase().includes(query)
nameIncludes(layer, query) == includes(toLowerCase(layer.name), query)

\* layer.metadata?.description?.toLowerCase().includes(query): undefined,
\* which || and filter take as false, without metadata or description
descriptionIncludes(layer, query) ==
    /\ "description" \in DOMAIN layer.metadata
    /\ includes(toLowerCase(layer.metadata.description), query)

\* layer.metadata?.tags?.some(tag => tag.toLowerCase().includes(query))
tagsSomeIncludes(layer, query) ==
    /\ "tags" \in DOMAIN layer.metadata
    /\ \E i \in DOMAIN layer.metadata.tags :
           includes(toLowerCase(layer.metadata.tags[i]), query)

\* filteredLayers matching on the name alone
filteredLayers_NameOnly(ls, q) ==
    IF Len(trim(q)) = 0 THEN ls
    ELSE SelectSeq(ls, LAMBDA layer : nameIncludes(layer, toLowerCase(q)))

\* computed filteredLayers, for searchQuery = q
filteredLayers(ls, q) ==
    IF Len(trim(q)) = 0 THEN ls
    ELSE LET query == toLowerCase(q) IN
         SelectSeq(ls, LAMBDA layer : \/ nameIncludes(layer, query)
                                      \/ descriptionIncludes(layer, query)
                                      \/ tagsSomeIncludes(layer, query))

\* computed filteredGroups: the member filter tests the name and the
\* description and has no test of the tags.
filteredGroups(ls, gs, q) ==
    IF Len(trim(q)) = 0 THEN gs
    ELSE LET query == toLowerCase(q)
             passes(id) == \/ nameIncludes(LayerOf(ls, id), query)
                           \/ descriptionIncludes(LayerOf(ls, id), query)
             mapped == [g \in 1 .. Len(gs) |->
                           [gs[g] EXCEPT !.layers = SelectSeq(@, passes)]]
         IN SelectSeq(mapped, LAMBDA group : Len(group.layers) > 0)

\* computed ungroupedLayers
ungroupedLayers(ls, gs, q) ==
    IF Len(gs) = 0 THEN filteredLayers(ls, q)
    ELSE LET groupedLayerIds ==
                 UNION {{gs[g].layers[i] : i \in DOMAIN gs[g].layers} : g \in DOMAIN gs}
         IN SelectSeq(filteredLayers(ls, q),
                      LAMBDA layer : layer.id \notin groupedLayerIds)

\* The layers that have a LayerItem: the rows of the rendered groups and the
\* ungrouped rows.
\* p = [layers, localLayers, localGroups, groups]: the host's layer array,
\* the layers and the groups the panel holds, and props.groups.
RowIds(p, q) ==
    LET rendered == filteredGroups(p.layers, p.localGroups, q) IN
    UNION {{rendered[g].layers[i] : i \in DOMAIN rendered[g].layers} :
              g \in DOMAIN rendered}
    \cup LayerIdsOf(ungroupedLayers(p.localLayers, p.groups, q))

\* v-if="searchQuery && filteredLayers.length === 0 &&
\*       filteredGroups.length === 0" of the 'No layers found' message
noResults(p, q) ==
    /\ Len(q) > 0
    /\ Len(filteredLayers(p.localLayers, q)) = 0
    /\ Len(filteredGroups(p.layers, p.localGroups, q)) = 0

\* The rendered group with the given id, when there is one
RenderedGroups(ls, gs, q, gid) ==
    LET rendered == filteredGroups(ls, gs, q) IN
    {g \in DOMAIN rendered : rendered[g].id = gid}

\* ---------------------------------------------------- LayerGroupItem

\* every, demanding a first member
allLayersVisible_NonEmpty(ls, members) ==
    /\ Len(members) > 0
    /\ \A i \in DOMAIN members : LayerOf(ls, members[i]).visible

\* props.group.layers.every(layer => layer.visible)
allLayersVisible(ls, members) ==
    \A i \in DOMAIN members : LayerOf(ls, members[i]).visible

\* props.group.layers.some(layer => layer.visible) && !allLayersVisible
someLayersVisible(ls, members) ==
    /\ \E i \in DOMAIN members : LayerOf(ls, members[i]).visible
    /\ ~allLayersVisible(ls, members)

visibleCount(ls, members) ==
    Cardinality({i \in DOMAIN members : LayerOf(ls, members[i]).visible})


\* --------------------------------------------------------- LayerItem

\* The value string of <input type="range" min="0" max="100">: the decimal
\* digits of the position p, most significant first.
SliderMin == 0
SliderMax == 100
SliderRange == SliderMin .. SliderMax

RECURSIVE SliderValue(_)
SliderValue(p) == IF p < 10 THEN <<p>> ELSE Append(SliderValue(p \div 10), p % 10)

\* parseInt(target.value) on a string of decimal digits
RECURSIVE parseIntFrom(_, _, _)
parseIntFrom(str, i, acc) ==
    IF i > Len(str) THEN acc ELSE parseIntFrom(str, i + 1, acc * 10 + str[i])

parseInt(str) == parseIntFrom(str, 1, 0)

\* ------------------------------------------------------------- hosts

Layer(id, name, visible, opacity, type, groupId, toggleable, opacityControl, metadata) ==
    [id |-> id, name |-> name, visible |-> visible, opacity |-> opacity,
     type |-> type, groupId |-> groupId, toggleable |-> toggleable,
     opacityControl |-> opacityControl, metadata |-> metadata]

Group(id, name, expanded, groupToggle, members) ==
    [id |-> id, name |-> name, expanded |-> expanded,
     groupToggle |-> groupToggle, layers |-> members]

Described(text) == [description |-> text]

\* A cut of the demo's layer and group arrays (demo/App.vue): two of the
\* basemaps and the two overlays.
DemoLayers ==
    << Layer("osm-base", "OpenStreetMap", TRUE, 100, "raster", "basemaps",
             TRUE, TRUE, Described("Standard OpenStreetMap base layer")),
       Layer("satellite-base", "Satellite Imagery", FALSE, 100, "raster",
             "basemaps", TRUE, TRUE, Described("ESRI World Imagery satellite basemap")),
       Layer("country-borders", "Country Borders", TRUE, 80, "line", "overlays",
             TRUE, TRUE, Described("International country boundaries")),
       Layer("cities", "Major Cities", TRUE, 100, "circle", "overlays",
             TRUE, TRUE, Described("World major cities population > 1M")) >>

DemoGroups ==
    << Group("basemaps", "Base Maps", TRUE, FALSE, <<"osm-base", "satellite-base">>),
       Group("overlays", "Overlays", TRUE, TRUE, <<"country-borders", "cities">>) >>

\* The demo's layer and group arrays in full
AllDemoLayers ==
    << Layer("osm-base", "OpenStreetMap", TRUE, 100, "raster", "basemaps",
             TRUE, TRUE, Described("Standard OpenStreetMap base layer")),
       Layer("satellite-base", "Satellite Imagery", FALSE, 100, "raster",
             "basemaps", TRUE, TRUE, Described("ESRI World Imagery satellite basemap")),
       Layer("terrain-base", "Terrain Map", FALSE, 100, "raster", "basemaps",
             TRUE, TRUE, Described("Terrain basemap with hillshading")),
       Layer("country-borders", "Country Borders", TRUE, 80, "line", "overlays",
             TRUE, TRUE, Described("International country boundaries")),
       Layer("cities", "Major Cities", TRUE, 100, "circle", "overlays",
             TRUE, TRUE, Described("World major cities population > 1M")),
       Layer("earthquakes", "Recent Earthquakes (7 days)", FALSE, 90, "circle",
             "real-time", TRUE, TRUE, Described("Earthquakes M2.5+ from past 7 days")) >>

AllDemoGroups ==
    << Group("basemaps", "Base Maps", TRUE, FALSE,
             <<"osm-base", "satellite-base", "terrain-base">>),
       Group("overlays", "Overlays", TRUE, TRUE, <<"country-borders", "cities">>),
       Group("real-time", "Real-Time Data", TRUE, FALSE, <<"earthquakes">>) >>

\* A host of the widget's generic contract: a toggled group of two, one of
\* them with its checkbox and its slider disabled, an ungrouped layer the
\* map never gets, and no basemaps.
PlainLayers ==
    << Layer("parcels", "Parcels", FALSE, 50, "vector", "data", TRUE, TRUE, NoMetadata),
       Layer("labels", "Labels", TRUE, 100, "symbol", "data", FALSE, FALSE, NoMetadata),
       Layer("ghost", "Ghost", TRUE, 100, "fill", Null, TRUE, TRUE,
             Described("A layer the map does not have")) >>

PlainGroups ==
    << Group("data", "Data", TRUE, TRUE, <<"parcels", "labels">>) >>

\* A host whose layers the search box tells apart: a toggled group whose
\* members match on the name, on a tag only and on name and description (the
\* last with its checkbox disabled), a group without members, and two
\* ungrouped layers with disabled checkboxes, one without metadata and with
\* a slider, one with description and tags.
SearchLayers ==
    << Layer("lakes", <<"A", "b">>, TRUE, 100, "fill", "water", TRUE, FALSE,
             NoMetadata),
       Layer("rivers", <<"C">>, FALSE, 100, "line", "water", TRUE, FALSE,
             [tags |-> << <<"a", "B">> >>]),
       Layer("reefs", <<"b", "c">>, TRUE, 100, "fill", "water", FALSE, FALSE,
             [description |-> <<"A", " ", "c">>]),
       Layer("towns", <<"b", " ", "A">>, TRUE, 70, "circle", Null, FALSE, TRUE,
             NoMetadata),
       Layer("peaks", <<"C", "c">>, FALSE, 100, "symbol", Null, FALSE, FALSE,
             [description |-> <<"B", "a">>,
              tags |-> << <<"c">>, <<"a", " ">> >>]) >>

SearchGroups ==
    << Group("water", "Water", TRUE, TRUE, <<"lakes", "rivers", "reefs">>),
       Group("empty", "Empty", FALSE, FALSE, <<>>) >>

\* A host whose grouped layers are one that can be found by its tag only
\* and a hidden one with its checkbox disabled
TagLayers ==
    << Layer("wells", <<"C">>, TRUE, 100, "circle", "utility", TRUE, FALSE,
             [tags |-> << <<"a", "B">> >>]),
       Layer("pipes", <<"C", "c">>, FALSE, 100, "line", "utility", FALSE, FALSE,
             NoMetadata),
       Layer("roads", <<"B", "c">>, TRUE, 100, "line", Null, TRUE, FALSE,
             NoMetadata) >>

TagGroups ==
    << Group("utility", "Utility", TRUE, TRUE, <<"wells", "pipes">>) >>

\* withDefaults(defineProps<LayerControlProps>(), ...) of LayerControl
DefaultProps ==
    [searchable |-> TRUE, showOpacity |-> TRUE, showInfo |-> TRUE,
     showZoomTo |-> TRUE, collapsed |-> FALSE]

\* <LayerControl :searchable="true" :show-opacity="true" :show-info="true"
\*               :show-zoom-to="false">
DemoProps == [DefaultProps EXCEPT !.showZoomTo = FALSE]

\* What the host's own 'load' handler adds to the map: layer id -> the
\* layout visibility it is added with.
HostStyle ==
    [id \in {"osm-base", "satellite-base", "terrain-base", "country-borders",
             "cities", "earthquakes", "parcels", "labels", "probe", "lakes",
             "rivers", "reefs", "towns"} |->
        IF id \in {"satellite-base", "terrain-base", "earthquakes", "parcels",
                   "rivers"}
        THEN "none" ELSE "visible"]

StyleLayers(ls) ==
    [id \in LayerIdsOf(ls) \cap DOMAIN HostStyle |->
        [visibility |-> HostStyle[id], paint |-> <<>>]]

NoLayers == [id \in {} |-> [visibility |-> "none", paint |-> <<>>]]

\* The host adds its layers in the order of its layer array, each on top of
\* the ones before it.
RECURSIVE StyleOrderFrom(_, _)
StyleOrderFrom(ls, i) ==
    IF i > Len(ls) THEN <<>>
    ELSE IF ls[i].id \in DOMAIN HostStyle
         THEN <<ls[i].id>> \o StyleOrderFrom(ls, i + 1)
         ELSE StyleOrderFrom(ls, i + 1)

StyleOrder(ls) == StyleOrderFrom(ls, 1)

\* ----------------------------------------------------- construction

NoHandler ==
    [op |-> "none", target |-> Null, input |-> Null, arg |-> Null, before |-> Null,
     ready |-> FALSE, present |-> FALSE, effects |-> <<>>, threw |-> FALSE]

\* setup of LayerControl, of useMapLayers and of one LayerItem per layer
Mounted(ls, gs, ps, loaded) ==
    /\ layers = ls
    /\ groups = gs
    /\ searchQuery = <<>>
    /\ isCollapsed = ps.collapsed
    /\ localLayers = [i \in 1 .. Len(ls) |-> ls[i].id]
    /\ localGroups = gs
    /\ LET p == [layers |-> ls, localLayers |-> ls, localGroups |-> gs, groups |-> gs]
       IN /\ localVisible = [id \in RowIds(p, <<>>) |-> LayerOf(ls, id).visible]
          /\ localOpacity = [id \in RowIds(p, <<>>) |-> LayerOf(ls, id).opacity]
    /\ mapReady = loaded
    /\ mapLayers = IF loaded THEN StyleLayers(ls) ELSE NoLayers
    /\ mapOrder = IF loaded THEN StyleOrder(ls) ELSE <<>>
    /\ props = ps
    /\ slides = 0
    /\ last = NoHandler

Init ==
    \E loaded \in BOOLEAN :
        \/ Mounted(DemoLayers, DemoGroups, DemoProps, loaded)
        \/ Mounted(PlainLayers, PlainGroups, DefaultProps, loaded)

\* ---------------------------------------------------------- actions

World == [layers |-> layers, mapLayers |-> mapLayers, effects |-> <<>>,
          threw |-> FALSE]

Ran(op, target, input, arg, before, w) ==
    /\ layers' = w.layers
    /\ mapLayers' = w.mapLayers
    /\ UNCHANGED <<mapOrder, props, searchQuery, isCollapsed>>
    /\ last' = [op |-> op, target |-> target, input |-> input, arg |-> arg,
                before |-> before,
                ready |-> mapReady, present |-> (target \in DOMAIN mapLayers),
                effects |-> w.effects, threw |-> w.threw]

\* The descriptors localLayers refers to
Held(ls, ids) == [i \in 1 .. Len(ids) |-> LayerOf(ls, ids[i])]

\* What the panel renders from
Panel ==
    [layers |-> layers, localLayers |-> Held(layers, localLayers),
     localGroups |-> localGroups, groups |-> groups]

\* A row the user can reach: it is mounted (v-for over the rendered groups
\* and the ungrouped layers), the panel's content is shown
\* (v-show="!isCollapsed") and so are the rows of its group
\* (v-show="group.expanded").
RowOnScreen(id) ==
    /\ id \in DOMAIN localVisible
    /\ ~isCollapsed
    /\ \A g \in DOMAIN localGroups :
           (\E i \in DOMAIN localGroups[g].layers : localGroups[g].layers[i] = id) =>
               localGroups[g].expanded

\* A load that brings the map layers to what the descriptors say
MapLoad_Replay ==
    /\ ~mapReady
    /\ mapReady' = TRUE
    /\ mapLayers' = [id \in DOMAIN StyleLayers(layers) |->
                        [visibility |-> IF LayerOf(layers, id).visible
                                        THEN "visible" ELSE "none",
                         paint |-> <<>>]]
    /\ mapOrder' = StyleOrder(layers)
    /\ UNCHANGED <<layers, groups, localLayers, localGroups, localVisible,
                   localOpacity, props, searchQuery, isCollapsed, slides, last>>

\* map.once('load', ...): the host's load handler has added its layers
MapLoad ==
    /\ ~mapReady
    /\ mapReady' = TRUE
    /\ mapLayers' = StyleLayers(layers)
    /\ mapOrder' = StyleOrder(layers)
    /\ UNCHANGED <<layers, groups, localLayers, localGroups, localVisible, localOpacity, props, searchQuery,
                   isCollapsed, slides, last>>

\* A row whose checkbox is never disabled
RowToggle_Enabled(id, fail) ==
    /\ RowOnScreen(id)
    /\ LET checked == ~localVisible[id] IN
       /\ localVisible' = [localVisible EXCEPT ![id] = checked]
       /\ Ran("toggleVisibility", id, Null, checked, LayerOf(layers, id).visible,
              handleLayerVisibilityChange(World, id, checked, fail))
    /\ UNCHANGED <<groups, localLayers, localGroups, localOpacity, mapReady, slides>>

\* LayerItem.toggleVisibility, up to LayerControl.handleLayerVisibilityChange
RowToggle(id, fail) ==
    /\ RowOnScreen(id)
    /\ LayerOf(layers, id).toggleable # FALSE
    /\ LET checked == ~localVisible[id] IN
       /\ localVisible' = [localVisible EXCEPT ![id] = checked]
       /\ Ran("toggleVisibility", id, Null, checked, LayerOf(layers, id).visible,
              handleLayerVisibilityChange(World, id, checked, fail))
    /\ UNCHANGED <<groups, localLayers, localGroups, localOpacity, mapReady, slides>>

\* LayerItem.updateOpacity, up to LayerControl.handleLayerOpacityChange
MaxSlides == 1
RowOpacity(id, p, fail) ==
    /\ RowOnScreen(id)
    /\ props.showOpacity /\ LayerOf(layers, id).opacityControl # FALSE
    /\ slides < MaxSlides
    /\ slides' = slides + 1
    /\ LET value == parseInt(SliderValue(p)) IN
       /\ localOpacity' = [localOpacity EXCEPT ![id] = value]
       /\ Ran("updateOpacity", id, p, value, LayerOf(layers, id).opacity,
              handleLayerOpacityChange(World, id, value, fail))
    /\ UNCHANGED <<groups, localLayers, localGroups, localVisible, mapReady>>

\* LayerItem.handleZoom, up to LayerControl.handleZoomToLayer
RowZoom(id, fail) ==
    /\ RowOnScreen(id)
    /\ props.showZoomTo
    /\ Ran("handleZoom", id, Null, Null, Null, handleZoomToLayer(World, id, fail))
    /\ UNCHANGED <<groups, localLayers, localGroups, localVisible, localOpacity, mapReady, slides>>

\* LayerItem.handleInfo, up to LayerControl.handleLayerInfo
RowInfo(id) ==
    /\ RowOnScreen(id)
    /\ props.showInfo /\ DOMAIN LayerOf(layers, id).metadata # {}
    /\ Ran("handleInfo", id, Null, Null, Null, handleLayerInfo(World, id))
    /\ UNCHANGED <<groups, localLayers, localGroups, localVisible, localOpacity, mapReady, slides>>

\* LayerGroupItem.toggleAllLayers, up to LayerControl.toggleGroupLayers
\* An aggregate control that acts on the group as stored, not as rendered
GroupToggle_StoredGroup(g, fail) ==
    /\ ~isCollapsed
    /\ localGroups[g].groupToggle = TRUE
    /\ RenderedGroups(layers, localGroups, searchQuery, localGroups[g].id) # {}
    /\ LET group == localGroups[g]
           wasAll == allLayersVisible(layers, group.layers) IN
       Ran("toggleAllLayers", group.id, group.layers, ~wasAll, wasAll,
           toggleGroupLayers(World, group.layers, ~wasAll, fail))
    /\ UNCHANGED <<groups, localLayers, localGroups, localVisible, localOpacity,
                   mapReady, slides>>

GroupToggle(g, fail) ==
    /\ ~isCollapsed
    /\ localGroups[g].groupToggle = TRUE
    /\ \E r \in RenderedGroups(layers, localGroups, searchQuery, localGroups[g].id) :
         LET group == filteredGroups(layers, localGroups, searchQuery)[r]
             wasAll == allLayersVisible(layers, group.layers)
             newVisibility == ~wasAll IN
         Ran("toggleAllLayers", group.id, group.layers, newVisibility, wasAll,
             toggleGroupLayers(World, group.layers, newVisibility, fail))
    /\ UNCHANGED <<groups, localLayers, localGroups, localVisible, localOpacity, mapReady, slides>>

\* What a handler that touches neither the layers nor the map leaves in last
Handled(op, target, input) ==
    [NoHandler EXCEPT !.op = op, !.target = target, !.input = input]

\* The rows after the rendered lists have changed: a row that stays keeps
\* its component and its state, a new row is set up from its descriptor.
Remount(local, field, p, q) ==
    [id \in RowIds(p, q) |->
        IF id \in DOMAIN local THEN local[id]
        ELSE IF field = "visible" THEN LayerOf(p.layers, id).visible
        ELSE LayerOf(p.layers, id).opacity]

\* What a keystroke in the search box makes of the text q: one more
\* character, up to MaxQuery of them, or the last one deleted.
MaxQuery == 2
QueryChars == {"a", "B", " "}

Keystrokes(q) ==
    {Append(q, c) : c \in IF Len(q) < MaxQuery THEN QueryChars ELSE {}}
    \cup (IF Len(q) > 0 THEN {SubSeq(q, 1, Len(q) - 1)} ELSE {})

\* v-model="searchQuery": the search box now holds q
SetSearch(q) ==
    /\ props.searchable /\ ~isCollapsed
    /\ q # searchQuery
    /\ searchQuery' = q
    /\ localVisible' = Remount(localVisible, "visible", Panel, q)
    /\ localOpacity' = Remount(localOpacity, "opacity", Panel, q)
    /\ last' = Handled("search", Null, q)
    /\ UNCHANGED <<layers, groups, localLayers, localGroups, mapReady, mapLayers, mapOrder, props,
                   isCollapsed, slides>>

\* LayerControl.clearSearch, the button shown while searchQuery is not ''
clearSearch ==
    /\ props.searchable /\ ~isCollapsed
    /\ Len(searchQuery) > 0
    /\ searchQuery' = <<>>
    /\ localVisible' = Remount(localVisible, "visible", Panel, <<>>)
    /\ localOpacity' = Remount(localOpacity, "opacity", Panel, <<>>)
    /\ last' = Handled("clearSearch", Null, <<>>)
    /\ UNCHANGED <<layers, groups, localLayers, localGroups, mapReady, mapLayers, mapOrder, props,
                   isCollapsed, slides>>

\* LayerControl.toggleCollapse
toggleCollapse ==
    /\ isCollapsed' = ~isCollapsed
    /\ last' = Handled("toggleCollapse", Null, Null)
    /\ UNCHANGED <<layers, groups, localLayers, localGroups, localVisible, localOpacity, mapReady,
                   mapLayers, mapOrder, props, searchQuery, slides>>

\* LayerGroupItem.toggleGroup, up to LayerControl.toggleGroupExpanded: the
\* header of a rendered group flips expanded of the stored group
\* of localGroups, which is the object the host's array holds under that id
toggleGroupExpanded(g) ==
    /\ ~isCollapsed
    /\ RenderedGroups(layers, localGroups, searchQuery, localGroups[g].id) # {}
    /\ localGroups' = [localGroups EXCEPT ![g].expanded = ~localGroups[g].expanded]
    /\ groups' = [k \in 1 .. Len(groups) |->
                     IF groups[k].id = localGroups[g].id
                     THEN [groups[k] EXCEPT !.expanded = ~localGroups[g].expanded]
                     ELSE groups[k]]
    /\ last' = Handled("toggleGroup", localGroups[g].id, Null)
    /\ UNCHANGED <<layers, localLayers, localVisible, localOpacity, mapReady, mapLayers,
                   mapOrder, props, searchQuery, isCollapsed, slides>>

Ids == LayerIdsOf(layers)

\* The position of the slider the user is taken to try (SpecOpacity tries all).
SliderSample == {57}

Next ==
    \/ MapLoad
    \/ \E id \in Ids : RowToggle(id, FALSE)
    \/ \E id \in Ids, p \in SliderSample : RowOpacity(id, p, FALSE)
    \/ \E id \in Ids : RowZoom(id, FALSE)
    \/ \E id \in Ids : RowInfo(id)
    \/ \E g \in DOMAIN localGroups : GroupToggle(g, FALSE)

Spec == Init /\ [][Next]_vars


\* The same panel on a map whose mutation calls may throw.
NextFaulty ==
    \/ MapLoad
    \/ \E id \in Ids, fail \in BOOLEAN : RowToggle(id, fail)
    \/ \E id \in Ids, p \in SliderSample, fail \in BOOLEAN : RowOpacity(id, p, fail)
    \/ \E id \in Ids, fail \in BOOLEAN : RowZoom(id, fail)
    \/ \E id \in Ids : RowInfo(id)
    \/ \E g \in DOMAIN localGroups, fail \in BOOLEAN : GroupToggle(g, fail)

SpecFaulty == Init /\ [][NextFaulty]_vars

\* One layer of any type string, and every position of its slider.
ProbeLayers(type) ==
    << Layer("probe", "Probe", TRUE, 100, type, Null, TRUE, TRUE, NoMetadata) >>

InitOpacity ==
    \E type \in TypeStrings, loaded \in BOOLEAN :
        Mounted(ProbeLayers(type), <<>>, DefaultProps, loaded)

NextOpacity ==
    \/ MapLoad
    \/ \E p \in SliderRange : RowOpacity("probe", p, FALSE)

SpecOpacity == InitOpacity /\ [][NextOpacity]_vars

\* The demo with all its layers: the checkboxes of the rows and of the
\* groups, before and after the map has loaded.
InitDemo == \E loaded \in BOOLEAN : Mounted(AllDemoLayers, AllDemoGroups, DemoProps, loaded)

NextDemo ==
    \/ MapLoad
    \/ \E id \in Ids : RowToggle(id, FALSE)
    \/ \E g \in DOMAIN localGroups : GroupToggle(g, FALSE)

SpecDemo == InitDemo /\ [][NextDemo]_vars

\* A host that asks for a new order of its layers A, B, C and D; the map has
\* some of A, B and C and a layer X of its own, stacked in any order, and
\* never has D.
OrderLayers ==
    << Layer("A", "A", TRUE, 100, "fill", Null, TRUE, TRUE, NoMetadata),
       Layer("B", "B", TRUE, 100, "line", Null, TRUE, TRUE, NoMetadata),
       Layer("C", "C", TRUE, 100, "circle", Null, TRUE, TRUE, NoMetadata),
       Layer("D", "D", TRUE, 100, "symbol", Null, TRUE, TRUE, NoMetadata) >>

\* The sequences of n different elements of S
RECURSIVE Arrangements(_, _)
Arrangements(S, n) ==
    IF n = 0 THEN {<<>>}
    ELSE UNION {{Append(t, x) : x \in S \ Range(t)} : t \in Arrangements(S, n - 1)}

StackOrders == UNION {Arrangements({"A", "B", "C", "X"}, n) : n \in 2 .. 4}
OrderRequests == UNION {Arrangements({"A", "B", "C", "D"}, n) : n \in 1 .. 4}

InitOrder ==
    \E loaded \in BOOLEAN, order \in StackOrders :
        /\ layers = OrderLayers
        /\ groups = <<>>
        /\ localLayers = [i \in 1 .. Len(OrderLayers) |-> OrderLayers[i].id]
        /\ localGroups = <<>>
        /\ searchQuery = <<>>
        /\ isCollapsed = FALSE
        /\ localVisible = [id \in LayerIdsOf(OrderLayers) |-> TRUE]
        /\ localOpacity = [id \in LayerIdsOf(OrderLayers) |-> 100]
        /\ mapReady = loaded
        /\ mapLayers = [id \in Range(order) |-> [visibility |-> "visible", paint |-> <<>>]]
        /\ mapOrder = order
        /\ props = DefaultProps
        /\ slides = 0
        /\ last = NoHandler

\* The host calls updateLayerOrder of the composable with its layers in the
\* order ids.
UpdateLayerOrder(ids) ==
    LET w == updateLayerOrder([mapOrder |-> mapOrder, effects |-> <<>>], ids) IN
    /\ mapOrder' = w.mapOrder
    /\ last' = [NoHandler EXCEPT !.op = "updateLayerOrder", !.input = ids,
                                 !.before = mapOrder, !.ready = mapReady,
                                 !.effects = w.effects]
    /\ UNCHANGED <<layers, groups, localLayers, localGroups, localVisible, localOpacity, mapReady, mapLayers,
                   props, searchQuery, isCollapsed, slides>>

NextOrder == \E ids \in OrderRequests : UpdateLayerOrder(ids)

SpecOrder == InitOrder /\ [][NextOrder]_vars

\* Every control of the panel, the search box with every query, on a
\* loaded map, for a host with groups, for one without, and for one whose
\* grouped layer matches by tag only.
InitSearch ==
    \/ Mounted(SearchLayers, SearchGroups, DefaultProps, TRUE)
    \/ Mounted(SearchLayers, <<>>, DefaultProps, TRUE)
    \/ Mounted(TagLayers, TagGroups, DefaultProps, TRUE)

NextSearch ==
    \/ \E q \in Keystrokes(searchQuery) : SetSearch(q)
    \/ clearSearch
    \/ toggleCollapse
    \/ \E g \in DOMAIN localGroups : toggleGroupExpanded(g)
    \/ \E id \in Ids : RowToggle(id, FALSE)
    \/ \E id \in Ids, p \in SliderSample : RowOpacity(id, p, FALSE)
    \/ \E id \in Ids : RowZoom(id, FALSE)
    \/ \E id \in Ids : RowInfo(id)
    \/ \E g \in DOMAIN localGroups : GroupToggle(g, FALSE)

SpecSearch == InitSearch /\ [][NextSearch]_vars

\* What a host may add to its arrays while the panel is mounted
HostExtraLayers ==
    << Layer("ponds", <<"a">>, TRUE, 100, "fill", Null, TRUE, FALSE,
             NoMetadata) >>

HostExtraGroups ==
    << Group("places", "Places", TRUE, TRUE, <<"towns", "peaks">>) >>

\* watch(() => props.layers, (newLayers) => { localLayers.value = [...newLayers] })
watchLayers(newLayers) == [i \in 1 .. Len(newLayers) |-> newLayers[i].id]

\* The panel after the host has changed props.layers: the watcher runs, then
\* the lists are rendered again.
LayersChanged(op, newLayers) ==
    /\ layers' = newLayers
    /\ localLayers' = watchLayers(newLayers)
    /\ UNCHANGED <<groups, localGroups, mapReady, mapLayers, mapOrder, props,
                   searchQuery, isCollapsed, slides>>
    /\ localVisible' = Remount(localVisible, "visible", Panel', searchQuery)
    /\ localOpacity' = Remount(localOpacity, "opacity", Panel', searchQuery)
    /\ last' = Handled(op, Null, Null)

\* The panel after the host has changed props.groups: no watcher runs
\* (localGroups was copied once, in setup), ungroupedLayers is computed
\* again from props.groups.
GroupsChanged(op, newGroups) ==
    /\ groups' = newGroups
    /\ UNCHANGED <<layers, localLayers, localGroups, mapReady, mapLayers,
                   mapOrder, props, searchQuery, isCollapsed, slides>>
    /\ localVisible' = Remount(localVisible, "visible", Panel', searchQuery)
    /\ localOpacity' = Remount(localOpacity, "opacity", Panel', searchQuery)
    /\ last' = Handled(op, Null, Null)

InSomeGroup(id) ==
    \E gs \in {groups, localGroups} : \E g \in DOMAIN gs :
        \E i \in DOMAIN gs[g].layers : gs[g].layers[i] = id

\* The host adds a layer to the array it passes as props.layers
HostAddLayer(layer) ==
    /\ layer.id \notin LayerIdsOf(layers)
    /\ LayersChanged("addLayer", Append(layers, layer))

\* The host removes a layer (one that no group lists) from props.layers
HostRemoveLayer(id) ==
    /\ id \in LayerIdsOf(layers)
    /\ ~InSomeGroup(id)
    /\ LayersChanged("removeLayer",
                     SelectSeq(layers, LAMBDA layer : layer.id # id))

\* The host adds a group, over layers it already passes, to props.groups
HostAddGroup(group) ==
    /\ \A g \in DOMAIN groups : groups[g].id # group.id
    /\ \A i \in DOMAIN group.layers : group.layers[i] \in LayerIdsOf(layers)
    /\ GroupsChanged("addGroup", Append(groups, group))

\* The host removes a group from props.groups
HostRemoveGroup(g) ==
    GroupsChanged("removeGroup",
                  SelectSeq(groups, LAMBDA group : group.id # groups[g].id))

HostOps == {"addLayer", "removeLayer", "addGroup", "removeGroup"}

\* The search host changing its arrays under every query
InitHost == Mounted(SearchLayers, SearchGroups, DefaultProps, TRUE)

NextHost ==
    \/ \E q \in Keystrokes(searchQuery) : SetSearch(q)
    \/ \E k \in DOMAIN HostExtraLayers : HostAddLayer(HostExtraLayers[k])
    \/ \E id \in LayerIdsOf(layers) : HostRemoveLayer(id)
    \/ \E k \in DOMAIN HostExtraGroups : HostAddGroup(HostExtraGroups[k])
    \/ \E g \in DOMAIN groups : HostRemoveGroup(g)

SpecHost == InitHost /\ [][NextHost]_vars


\* ------------------------------------------------------- properties

Effects == last.effects

\* Positions in the log of the last handler run
MapCalls(name, id) ==
    {k \in DOMAIN Effects : /\ Effects[k].kind = "map"
                            /\ Effects[k].name = name
                            /\ Effects[k].layer = id}

AnyMapCalls == {k \in DOMAIN Effects : Effects[k].kind = "map"}

PanelMapCalls == {k \in AnyMapCalls : Effects[k].by = "panel"}

Notifications(event, id) ==
    {k \in DOMAIN Effects : /\ Effects[k].kind = "emit"
                            /\ Effects[k].name = event
                            /\ Effects[k].layer = id}

Writes(field, id) ==
    {k \in DOMAIN Effects : /\ Effects[k].kind = "write"
                            /\ Effects[k].by = "panel"
                            /\ Effects[k].name = field
                            /\ Effects[k].layer = id}

Warnings(id) ==
    {k \in DOMAIN Effects : /\ Effects[k].kind = "log"
                            /\ Effects[k].name = "warn"
                            /\ Effects[k].layer = id}

LayoutValue(visible) == IF visible THEN "visible" ELSE "none"

\* C1: a row toggle flips the layer's visible flag, notifies the host once
\* with (layer id, new flag) and, when the map is ready and has the layer,
\* requests exactly one setLayoutProperty(id, 'visibility', 'visible'/'none')
\* matching the new flag.
C1_RowToggleFlipsNotifiesAndMutates ==
    last.op = "toggleVisibility" =>
        LET id == last.target
            now == LayerOf(layers, id).visible
        IN /\ now = ~last.before
           /\ Cardinality(Notifications("layer-visibility-change", id)) = 1
           /\ \A k \in Notifications("layer-visibility-change", id) :
                  Effects[k].value = now
           /\ (last.ready /\ last.present) =>
                  /\ Cardinality(MapCalls("setLayoutProperty", id)) = 1
                  /\ \A k \in MapCalls("setLayoutProperty", id) :
                         /\ Effects[k].prop = "visibility"
                         /\ Effects[k].value = LayoutValue(now)

\* The field a notification reports and the map call that carries it.
FieldOf(event) == IF event = "layer-visibility-change" THEN "visible" ELSE "opacity"
CallOf(event) ==
    IF event = "layer-visibility-change" THEN "setLayoutProperty" ELSE "setPaintProperty"
ChangeEvents == {"layer-visibility-change", "layer-opacity-change"}

\* C2: in every handler run, each visibility or opacity notification is
\* preceded by the panel's write of that value into the layer descriptor, the
\* panel's map mutation for that layer (when there is one) lies between the
\* write and the notification, and no map mutation of the panel goes
\* without its earlier write and its later notification.
C2_WriteThenMapThenNotify ==
    /\ \A k \in DOMAIN Effects :
           (Effects[k].kind = "emit" /\ Effects[k].name \in ChangeEvents) =>
               LET id == Effects[k].layer
                   ev == Effects[k].name
               IN \E i \in Writes(FieldOf(ev), id) :
                      /\ i < k
                      /\ Effects[i].value = Effects[k].value
                      /\ \A j \in MapCalls(CallOf(ev), id) \cap PanelMapCalls :
                             i < j /\ j < k
    /\ \A j \in PanelMapCalls :
           Effects[j].name \in {"setLayoutProperty", "setPaintProperty"} =>
               LET id == Effects[j].layer
                   ev == IF Effects[j].name = "setLayoutProperty"
                         THEN "layer-visibility-change" ELSE "layer-opacity-change"
               IN /\ \E i \in Writes(FieldOf(ev), id) : i < j
                  /\ \E k \in Notifications(ev, id) : j < k
    /\ last.op \in {"toggleVisibility", "updateOpacity"} =>
           \E k \in DOMAIN Effects :
               Effects[k].kind = "emit" /\ Effects[k].name \in ChangeEvents

\* C2 witness: a group toggle that wrote, mutated the map and notified for
\* two layers, one after the other.
C2_Witness ==
    /\ last.op = "toggleAllLayers"
    /\ Cardinality({k \in PanelMapCalls : Effects[k].name = "setLayoutProperty"}) = 2
    /\ Cardinality({k \in DOMAIN Effects : Effects[k].kind = "emit"}) = 2

\* C3: every visibility notification of the last handler run carries the
\* checked state the layer's row displays (localVisible).
C3_NotificationMatchesDisplayedState ==
    \A k \in DOMAIN Effects :
        (Effects[k].kind = "emit" /\ Effects[k].name = "layer-visibility-change") =>
            Effects[k].value = localVisible[Effects[k].layer]

\* C4: two row toggles of the same layer in a row, on a ready map that has
\* the layer, leave the visible flag at its value before the first and make
\* one setLayoutProperty call each, with opposite values.
C4_ToggleTwiceRestores ==
    [][ ( /\ last.op = "toggleVisibility" /\ last'.op = "toggleVisibility"
          /\ last.target = last'.target
          /\ last' # last
          /\ last.ready /\ last.present )
        => LET id == last.target
               first == {k \in DOMAIN last.effects :
                            /\ last.effects[k].kind = "map"
                            /\ last.effects[k].by = "panel"}
               second == {k \in DOMAIN last'.effects :
                            /\ last'.effects[k].kind = "map"
                            /\ last'.effects[k].by = "panel"}
           IN /\ LayerOf(layers', id).visible = last.before
              /\ Cardinality(first) = 1 /\ Cardinality(second) = 1
              /\ \A a \in first, b \in second :
                     /\ last.effects[a].name = "setLayoutProperty"
                     /\ last'.effects[b].name = "setLayoutProperty"
                     /\ last.effects[a].layer = id /\ last'.effects[b].layer = id
                     /\ last.effects[a].value # last'.effects[b].value ]_vars


\* Members of a group whose checkbox is not disabled
ToggleableMembers(gid) ==
    LET g == CHOOSE i \in DOMAIN groups : groups[i].id = gid
    IN {groups[g].layers[i] : i \in DOMAIN groups[g].layers}
           \cap {id \in Ids : LayerOf(layers, id).toggleable # FALSE}

\* C5: a visibility or opacity change made while the map is not ready, or
\* for a layer the map does not have, issues no map mutation and throws
\* nothing, and still writes the new value into the descriptor and notifies
\* the host of it.
C5_SkippedMapCallStillWritesAndNotifies ==
    /\ (last.op = "toggleVisibility" /\ (~last.ready \/ ~last.present)) =>
           /\ PanelMapCalls = {} /\ ~last.threw
           /\ LayerOf(layers, last.target).visible = last.arg
           /\ \E k \in Notifications("layer-visibility-change", last.target) :
                  Effects[k].value = last.arg
    /\ (last.op = "updateOpacity" /\ (~last.ready \/ ~last.present)) =>
           /\ PanelMapCalls = {} /\ ~last.threw
           /\ LayerOf(layers, last.target).opacity = last.arg
           /\ \E k \in Notifications("layer-opacity-change", last.target) :
                  Effects[k].value = last.arg
    /\ (last.op = "toggleAllLayers" /\ ~last.ready) =>
           /\ PanelMapCalls = {} /\ ~last.threw
           /\ \A id \in ToggleableMembers(last.target) :
                  /\ \E i \in Writes("visible", id) : Effects[i].value = last.arg
                  /\ \E k \in Notifications("layer-visibility-change", id) :
                         Effects[k].value = last.arg

\* C5 witness: the slider of a layer the ready map does not have was moved.
C5_Witness ==
    /\ last.op = "updateOpacity" /\ last.ready /\ ~last.present
    /\ LayerOf(layers, last.target).opacity = 57

\* C6: no handler run raises, whatever the map's mutation calls do, and the
\* handlers that notify the host have notified it.
C6_NoOperationRaises ==
    /\ ~last.threw
    /\ last.op = "toggleVisibility" =>
           Notifications("layer-visibility-change", last.target) # {}
    /\ last.op = "updateOpacity" =>
           Notifications("layer-opacity-change", last.target) # {}
    /\ last.op = "handleZoom" => Notifications("layer-zoom", last.target) # {}

TargetType == LayerOf(layers, last.target).type

\* C7: an opacity adjustment of a hillshade layer issues no setPaintProperty.
C7_HillshadeOpacityIsNoOp ==
    (last.op = "updateOpacity" /\ TargetType = "hillshade") =>
        MapCalls("setPaintProperty", last.target) = {}

\* The table of the specification (section 4.3)
OpacityTable ==
    [t \in {"raster", "fill", "line", "circle", "symbol", "fill-extrusion",
            "heatmap"} |->
        CASE t = "raster" -> "raster-opacity"
          [] t = "fill" -> "fill-opacity"
          [] t = "line" -> "line-opacity"
          [] t = "circle" -> "circle-opacity"
          [] t = "symbol" -> "icon-opacity"
          [] t = "fill-extrusion" -> "fill-extrusion-opacity"
          [] t = "heatmap" -> "heatmap-opacity"]

\* C8: for each of the seven types of the table, an opacity adjustment on a
\* ready map that has the layer makes exactly one map call: setPaintProperty
\* on the layer's own id with the property the table gives for the type.
C8_OpacityPropertyFollowsTable ==
    ( /\ last.op = "updateOpacity" /\ last.ready /\ last.present
      /\ TargetType \in DOMAIN OpacityTable ) =>
        /\ Cardinality(AnyMapCalls) = 1
        /\ AnyMapCalls = MapCalls("setPaintProperty", last.target)
        /\ \A k \in AnyMapCalls : Effects[k].prop = OpacityTable[TargetType]

\* C8 witness: the slider of a symbol layer was moved on a ready map.
C8_Witness ==
    /\ last.op = "updateOpacity" /\ last.ready /\ last.present
    /\ TargetType = "symbol"
    /\ \E k \in AnyMapCalls : Effects[k].prop = "icon-opacity"

\* C9: for a type without an entry in the table (vector, geojson or a string
\* outside the enumeration) an opacity adjustment issues no setPaintProperty
\* and, on a ready map that has the layer, warns; the opacity field is still
\* updated and the host still notified.
C9_UnmappedTypeWarnsAndSkips ==
    ( /\ last.op = "updateOpacity"
      /\ TargetType \in {"vector", "geojson"} \cup (TypeStrings \ LayerType) ) =>
        /\ MapCalls("setPaintProperty", last.target) = {}
        /\ (last.ready /\ last.present) => Warnings(last.target) # {}
        /\ LayerOf(layers, last.target).opacity = last.arg
        /\ \E k \in Notifications("layer-opacity-change", last.target) :
               Effects[k].value = last.arg

\* C10: for every slider position p the descriptor, the row and the
\* notification keep p, and the value handed to setPaintProperty is p / 100:
\* 0 for 0, 1 for 100, 57/100 for 57.
C10_MapGetsPercentageOverHundred ==
    last.op = "updateOpacity" =>
        LET p == last.input
            id == last.target
        IN /\ LayerOf(layers, id).opacity = p
           /\ localOpacity[id] = p
           /\ Cardinality(Notifications("layer-opacity-change", id)) = 1
           /\ \A k \in Notifications("layer-opacity-change", id) :
                  Effects[k].value = p
           /\ \A k \in MapCalls("setPaintProperty", id) :
                  LET v == Effects[k].value IN
                  /\ v.den > 0
                  /\ v.num * 100 = p * v.den
                  /\ (p = 0 => v = [num |-> 0, den |-> 1])
                  /\ (p = 100 => v = [num |-> 1, den |-> 1])
                  /\ (p = 57 => v = [num |-> 57, den |-> 100])

\* C10 witness: position 57 reached the map as 57/100.
C10_Witness ==
    /\ last.op = "updateOpacity" /\ last.input = 57
    /\ \E k \in MapCalls("setPaintProperty", last.target) :
           Effects[k].value = [num |-> 57, den |-> 100]

\* ------------------------------------------------ properties: search

\* The same letter, whatever its case
CaseFold(c) ==
    CASE c \in {"a", "A"} -> "a"
      [] c \in {"b", "B"} -> "b"
      [] c \in {"c", "C"} -> "c"
      [] OTHER -> c

\* text contains q as a case-insensitive substring
ContainsIgnoringCase(text, q) ==
    \E i \in 0 .. (Len(text) - Len(q)) :
        \A k \in 1 .. Len(q) : CaseFold(text[i + k]) = CaseFold(q[k])

\* The predicate of the specification (section 4.1): name, description or
\* any tag contains the query
Matches(layer, q) ==
    \/ ContainsIgnoringCase(layer.name, q)
    \/ /\ "description" \in DOMAIN layer.metadata
       /\ ContainsIgnoringCase(layer.metadata.description, q)
    \/ /\ "tags" \in DOMAIN layer.metadata
       /\ \E i \in DOMAIN layer.metadata.tags :
              ContainsIgnoringCase(layer.metadata.tags[i], q)

BlankQuery(q) == \A i \in DOMAIN q : q[i] = " "

MembersOf(g) == {groups[g].layers[i] : i \in DOMAIN groups[g].layers}
GroupedIds == UNION {MembersOf(g) : g \in DOMAIN groups}

\* The rows on the panel: of a group, and outside the groups
GroupRows(g) == DOMAIN localVisible \cap MembersOf(g)
UngroupedRows == DOMAIN localVisible \ GroupedIds

\* C11: while the query is not blank, the rows of every group are exactly
\* its members whose name, description or some tag contains the query as a
\* case-insensitive substring.
C11_GroupRowsMatchNameDescriptionOrTag ==
    ~BlankQuery(searchQuery) =>
        \A g \in DOMAIN groups :
            GroupRows(g) =
                {id \in MembersOf(g) : Matches(LayerOf(layers, id), searchQuery)}

\* C12: while the query is not blank, the ungrouped rows are exactly the
\* layers that are in no group's list and whose name, description or some
\* tag contains the query as a case-insensitive substring; a layer without
\* metadata is matched on its name alone.
C12_UngroupedRowsMatchOutsideGroups ==
    ~BlankQuery(searchQuery) =>
        /\ UngroupedRows =
               {id \in Ids \ GroupedIds : Matches(LayerOf(layers, id), searchQuery)}
        /\ \A id \in Ids \ GroupedIds :
               LayerOf(layers, id).metadata = NoMetadata =>
                   (id \in UngroupedRows <=>
                        ContainsIgnoringCase(LayerOf(layers, id).name, searchQuery))

\* C12 witness: the query 'a ' leaves one ungrouped row, of the layer that
\* has it in a tag only, and drops the ungrouped layer without metadata.
C12_Witness ==
    /\ searchQuery = <<"a", " ">>
    /\ Len(groups) > 0
    /\ UngroupedRows = {"peaks"}
    /\ LayerOf(layers, "towns").metadata = NoMetadata

\* The texts that differ from q in the case of their letters only
RECURSIVE CaseVariants(_)
CaseVariants(q) ==
    IF Len(q) = 0 THEN {<<>>}
    ELSE {<<c>> \o t : c \in {x \in {"a", "A", "b", "B", "c", "C", " "} :
                                  CaseFold(x) = CaseFold(Head(q))},
                       t \in CaseVariants(Tail(q))}

\* C13: whenever the search box changes, the rows for the new query are the
\* rows for each of its case variants, and when the new query is the old one
\* followed by one character, the new ungrouped rows and the new rows of
\* every group are among the old ones (a blank old query included).
C13_FilterIgnoresCaseAndNarrows ==
    [][ searchQuery' # searchQuery =>
          /\ \A t \in CaseVariants(searchQuery') :
                 RowIds(Panel', t) = DOMAIN localVisible'
          /\ (\E c \in QueryChars : searchQuery' = Append(searchQuery, c)) =>
                 /\ (DOMAIN localVisible' \ GroupedIds) \subseteq UngroupedRows
                 /\ \A g \in DOMAIN groups :
                        (DOMAIN localVisible' \cap MembersOf(g)) \subseteq GroupRows(g)
      ]_vars

\* C13 witness: 'B' was typed after 'a'; the one row left is of the layer
\* named 'Ab'.
C13_Witness ==
    /\ last.op = "search" /\ searchQuery = <<"a", "B">>
    /\ Len(groups) > 0
    /\ DOMAIN localVisible = {"lakes"}

\* C14: while the query is empty or blank, the layer list and the group
\* list are the unfiltered ones: every layer has its row and every group,
\* one without members included, is rendered with all its members.
C14_BlankQueryShowsEverything ==
    BlankQuery(searchQuery) =>
        /\ filteredLayers(Panel.localLayers, searchQuery) = layers
        /\ filteredGroups(layers, localGroups, searchQuery) = groups
        /\ UngroupedRows = Ids \ GroupedIds
        /\ \A g \in DOMAIN groups :
               /\ RenderedGroups(layers, localGroups, searchQuery, groups[g].id) # {}
               /\ GroupRows(g) = MembersOf(g)

\* C14 witness: two spaces in the search box, all five rows and the group
\* without members on the panel.
C14_Witness ==
    /\ searchQuery = <<" ", " ">>
    /\ Cardinality(DOMAIN localVisible) = 5
    /\ \E g \in DOMAIN groups :
           /\ MembersOf(g) = {}
           /\ RenderedGroups(layers, localGroups, searchQuery, groups[g].id) # {}

\* ------------------------------------------------ properties: groups

\* The groups on the panel, as LayerGroupItem gets them
Rendered == filteredGroups(layers, localGroups, searchQuery)

VisibleMembers(members) ==
    {i \in DOMAIN members : LayerOf(layers, members[i]).visible}

\* C15: for every group on the panel, 'all visible' holds iff the count of
\* visible members equals the count of members, 'indeterminate' holds iff
\* the count of visible members lies strictly between 0 and the count of
\* members, the two never hold together, and a group without members is
\* 'all visible' and not 'indeterminate'.
C15_GroupFlagsFollowCounts ==
    \A r \in DOMAIN Rendered :
        LET members == Rendered[r].layers
            totalCount == Len(members)
            count == Cardinality(VisibleMembers(members))
        IN /\ visibleCount(layers, members) = count
           /\ allLayersVisible(layers, members) <=> (count = totalCount)
           /\ someLayersVisible(layers, members) <=> (0 < count /\ count < totalCount)
           /\ ~(allLayersVisible(layers, members) /\ someLayersVisible(layers, members))
           /\ totalCount = 0 =>
                  /\ allLayersVisible(layers, members)
                  /\ ~someLayersVisible(layers, members)

\* C15 witness: after a row toggle one group on the panel has all three
\* members visible and another has no members.
C15_Witness ==
    /\ last.op = "toggleVisibility"
    /\ \E r \in DOMAIN Rendered :
           /\ Len(Rendered[r].layers) = 3
           /\ Cardinality(VisibleMembers(Rendered[r].layers)) = 3
    /\ \E r \in DOMAIN Rendered : Len(Rendered[r].layers) = 0

NotificationsIn(effects, id) ==
    {k \in DOMAIN effects : /\ effects[k].kind = "emit"
                            /\ effects[k].name = "layer-visibility-change"
                            /\ effects[k].layer = id}

C17_RequestedOrderFromTheBottom ==
    ( /\ last.op = "updateLayerOrder" /\ last.ready
      /\ Len(last.input) = 3 /\ Range(last.input) \subseteq Range(last.before) ) =>
        /\ mapOrder[1] = last.input[3]
        /\ mapOrder[2] = last.input[2]
        /\ mapOrder[3] = last.input[1]

\* The entries of the last order request that the map had / did not have
PresentEntries == Range(last.input) \cap Range(last.before)
AbsentEntries == Range(last.input) \ Range(last.before)

\* C22: an order request with entries that the map does not have issues no
\* move for those entries, and leaves the entries the map has in the
\* requested front-to-back order: of two of them, the one requested earlier
\* is above the other on the map.
C22_PresentEntriesKeepRequestedOrder ==
    ( /\ last.op = "updateLayerOrder" /\ last.ready
      /\ AbsentEntries # {} ) =>
        /\ \A k \in DOMAIN Effects : Effects[k].layer \notin AbsentEntries
        /\ \A i, j \in DOMAIN last.input :
               ( /\ i < j
                 /\ {last.input[i], last.input[j]} \subseteq PresentEntries ) =>
                   PositionIn(mapOrder, last.input[i]) >
                       PositionIn(mapOrder, last.input[j])

\* -------------------------------------------------- properties: demo

Basemaps == basemapIds \cap Ids

\* C18: in the demo, a row toggle that turns a basemap on leaves that
\* basemap the one visible basemap: its descriptor is visible and every
\* other basemap's is not, every other basemap's layer on the map has
\* visibility 'none', and on the loaded map its own layer is the one basemap
\* layer with visibility 'visible'.
C18_OneBasemapAfterTurningOneOn ==
    [][ ( /\ last' # last
          /\ last'.op = "toggleVisibility" /\ last'.arg = TRUE
          /\ last'.target \in basemapIds ) =>
            /\ {id \in Basemaps : LayerOf(layers', id).visible} = {last'.target}
            /\ \A id \in (Basemaps \cap DOMAIN mapLayers') \ {last'.target} :
                   mapLayers'[id].visibility = "none"
            /\ mapReady =>
                   {id \in Basemaps : /\ id \in DOMAIN mapLayers'
                                      /\ mapLayers'[id].visibility = "visible"}
                       = {last'.target}
      ]_vars

\* C18 witness: 'satellite-base' was turned on while 'osm-base' was visible,
\* on the loaded map; the host turned 'osm-base' off in the descriptors and
\* on the map.
C18_Witness ==
    /\ last.op = "toggleVisibility" /\ last.arg = TRUE /\ last.ready
    /\ last.target = "satellite-base"
    /\ Cardinality(Basemaps) = 3
    /\ \E k \in DOMAIN Effects :
           /\ Effects[k].by = "host" /\ Effects[k].kind = "write"
           /\ Effects[k].layer = "osm-base"
           /\ Effects[k].prop = TRUE /\ Effects[k].value = FALSE
    /\ mapLayers["osm-base"].visibility = "none"
    /\ mapLayers["satellite-base"].visibility = "visible"

\* The three basemaps of the demo
TheBasemaps == {"osm-base", "satellite-base", "terrain-base"}

\* Positions in the log of the last handler run of what the host did
HostEffects == {k \in DOMAIN Effects : Effects[k].by = "host"}

\* The notification the host was answering at position k of the log
NotificationBefore(k) ==
    LET before == {j \in 1 .. k - 1 : Effects[j].kind = "emit"}
    IN Effects[CHOOSE j \in before : \A i \in before : i <= j]

\* C23: in the demo, everything the host's basemap rule does is to write
\* visible := false on, and set the map visibility 'none' of, a basemap
\* other than the one turned on, and it does so only in answer to a
\* visibility notification for a basemap that carries visible = true: it
\* touches no layer outside the three basemaps, and does nothing for a
\* notification about another layer or with visible = false.
C23_BasemapRuleTouchesOtherBasemapsOnly ==
    \A k \in HostEffects :
        /\ \E j \in 1 .. k - 1 : Effects[j].kind = "emit"
        /\ NotificationBefore(k).name = "layer-visibility-change"
        /\ NotificationBefore(k).value = TRUE
        /\ NotificationBefore(k).layer \in TheBasemaps
        /\ Effects[k].layer \in TheBasemaps \ {NotificationBefore(k).layer}
        /\ \/ /\ Effects[k].kind = "write" /\ Effects[k].name = "visible"
              /\ Effects[k].value = FALSE
           \/ /\ Effects[k].kind = "map" /\ Effects[k].name = "setLayoutProperty"
              /\ Effects[k].prop = "visibility" /\ Effects[k].value = "none"

\* C23 witness: 'terrain-base' was turned on on the loaded map while
\* overlays were visible; the host wrote and called the map for the other
\* two basemaps and for nothing else.
C23_Witness ==
    /\ last.op = "toggleVisibility" /\ last.arg = TRUE /\ last.ready
    /\ last.target = "terrain-base"
    /\ LayerOf(layers, "country-borders").visible
    /\ {Effects[k].layer : k \in HostEffects} = {"osm-base", "satellite-base"}
    /\ \E k \in HostEffects : Effects[k].kind = "map"

\* The descriptors among osm-base, satellite-base and terrain-base that are
\* visible
VisibleBasemaps ==
    {i \in DOMAIN layers :
        /\ layers[i].id \in TheBasemaps
        /\ layers[i].visible}

\* C25: in the demo, which starts with osm-base the one visible basemap,
\* at most one of the descriptors osm-base, satellite-base and terrain-base
\* has visible = true after any sequence of toggles; there may be none.
C25_AtMostOneBasemapVisible == Cardinality(VisibleBasemaps) <= 1

\* C25 witness: after a switch to 'satellite-base', that basemap was turned
\* off by its row; no basemap is left visible.
C25_Witness ==
    /\ last.op = "toggleVisibility" /\ last.arg = FALSE
    /\ last.target = "satellite-base"
    /\ \E k \in DOMAIN Effects :
           /\ Effects[k].kind = "write" /\ Effects[k].layer = "satellite-base"
           /\ Effects[k].prop = TRUE /\ Effects[k].value = FALSE
    /\ VisibleBasemaps = {}

\* ------------------------------------------------- properties: frame

\* C19: no step of the panel (row toggle, slider, group toggle, group
\* expand, collapse, search, zoom, info) adds an entry to or removes one from
\* the layer array or a group's layer list, and no step changes a field of a
\* layer descriptor other than visible and opacity.
C19_OnlyVisibleAndOpacityAreWritten ==
    [][ /\ Len(layers') = Len(layers)
        /\ \A i \in DOMAIN layers :
               [layers'[i] EXCEPT !.visible = layers[i].visible,
                                  !.opacity = layers[i].opacity] = layers[i]
        /\ Len(groups') = Len(groups)
        /\ \A g \in DOMAIN groups :
               /\ groups'[g].id = groups[g].id
               /\ groups'[g].layers = groups[g].layers
      ]_vars

\* C19 witness: the slider of 'towns' was moved after a toggle had hidden
\* 'lakes', with a query in the search box and the group 'water' folded.
C19_Witness ==
    /\ last.op = "updateOpacity" /\ LayerOf(layers, "towns").opacity = 57
    /\ ~LayerOf(layers, "lakes").visible
    /\ Len(searchQuery) > 0
    /\ Len(groups) = 2 /\ ~groups[1].expanded
    /\ Len(layers) = 5

\* C20: in every state each row's checkbox (localVisible) equals its
\* layer's visible flag and each row's slider value (localOpacity) equals
\* its layer's opacity.
C20_RowsMirrorDescriptors ==
    \A id \in DOMAIN localVisible :
        /\ localVisible[id] = LayerOf(layers, id).visible
        /\ localOpacity[id] = LayerOf(layers, id).opacity

\* What the panel would show if its lists were the filter's result on the
\* host's arrays as they are now
ShownGroups == filteredGroups(layers, localGroups, searchQuery)
ShownUngrouped == ungroupedLayers(Panel.localLayers, groups, searchQuery)

\* C21: after the host has added to or removed from its layers array or its
\* groups array, the groups and the ungrouped rows on the panel are the
\* filter's result on the host's arrays as they are now, for the current
\* query.
C21_ListsFollowHostArrays ==
    last.op \in HostOps =>
        /\ ShownGroups = filteredGroups(layers, groups, searchQuery)
        /\ ShownUngrouped = ungroupedLayers(layers, groups, searchQuery)

\* ------------------------------------------ properties: search lists

\* C24: while the query is not blank, a group is on the panel exactly when
\* at least one of its members passes the filter (name, description or a
\* tag contains the query), no group is shown without rows, and no step
\* that changes the query changes a stored group.
C24_GroupShownIffSomeMemberPasses ==
    [][ /\ ~BlankQuery(searchQuery') =>
               /\ \A g \in DOMAIN groups' :
                      (RenderedGroups(layers', localGroups', searchQuery',
                                      groups'[g].id) # {})
                      <=> (\E id \in {groups'[g].layers[i] :
                                          i \in DOMAIN groups'[g].layers} :
                              Matches(LayerOf(layers', id), searchQuery'))
               /\ \A r \in DOMAIN Rendered' : Len(Rendered'[r].layers) > 0
        /\ searchQuery' # searchQuery =>
               groups' = groups /\ localGroups' = localGroups
      ]_vars

\* C26: whenever the query is not empty and the panel has no group and no
\* ungrouped row to render, the 'No layers found' message is shown.
C26_MessageWhenNothingIsListed ==
    ( /\ Len(searchQuery) > 0
      /\ Len(ShownGroups) = 0
      /\ Len(ShownUngrouped) = 0 ) => noResults(Panel, searchQuery)

\* ------------------------------------- properties: aggregate toggle

\* Positions in a log of the first write of visible to each layer
FirstVisibleWrites(effects) ==
    {k \in DOMAIN effects :
        /\ effects[k].kind = "write" /\ effects[k].name = "visible"
        /\ \A j \in 1 .. k - 1 :
               ~(/\ effects[j].kind = "write" /\ effects[j].name = "visible"
                 /\ effects[j].layer = effects[k].layer)}

\* C27: a toggle of a group's aggregate control leaves the group's 'all
\* visible' state the negation of what it was, and the second of two
\* consecutive toggles of the same group leaves every member with the
\* visible flag it had before the first; for every group, also one with
\* members that are not toggleable.
C27_AggregateToggleNegatesAndTwoRestore ==
    [][ ( /\ last' # last
          /\ last'.op = "toggleAllLayers" ) =>
            /\ allLayersVisible(layers', last'.input) = ~last'.before
            /\ ( /\ last.op = "toggleAllLayers"
                 /\ last.target = last'.target
                 /\ last.input = last'.input ) =>
                   \A k \in FirstVisibleWrites(last.effects) :
                       LayerOf(layers', last.effects[k].layer).visible
                           = last.effects[k].prop
      ]_vars

\* The ids that a log writes visible of, notifies about, or calls the map for
TouchedIn(effects) == {effects[k].layer : k \in DOMAIN effects}

\* The aggregate state of the rendered group: 'all visible',
\* 'indeterminate' and the visible count are those of the rows in shown
AggregateOver(ls, group, shown) ==
    LET on == {id \in shown : LayerOf(ls, id).visible} IN
    /\ allLayersVisible(ls, group.layers) = (on = shown)
    /\ someLayersVisible(ls, group.layers) = (on # {} /\ on # shown)
    /\ visibleCount(ls, group.layers) = Cardinality(on)

\* C28: while the query is not blank, a toggle of the aggregate control of
\* a group finds and leaves the group's aggregate state ('all visible',
\* 'indeterminate', the visible count) that of the members the group shows
\* under the query, takes 'all visible' over those members, writes,
\* notifies and calls the map for those members only, and leaves the
\* visible flag and the map layer of every member the filter hides as they
\* were.
C28_AggregateOverShownMembersOnly ==
    [][ ( /\ last' # last
          /\ last'.op = "toggleAllLayers"
          /\ ~BlankQuery(searchQuery) ) =>
            \A g \in DOMAIN groups :
                groups[g].id = last'.target =>
                    /\ \A r \in DOMAIN Rendered :
                           Rendered[r].id = last'.target =>
                               /\ AggregateOver(layers, Rendered[r], GroupRows(g))
                               /\ AggregateOver(layers', Rendered[r], GroupRows(g))
                    /\ last'.before =
                           (\A id \in GroupRows(g) : LayerOf(layers, id).visible)
                    /\ TouchedIn(last'.effects) \subseteq GroupRows(g)
                    /\ \A id \in MembersOf(g) \ GroupRows(g) :
                           /\ LayerOf(layers', id).visible
                                  = LayerOf(layers, id).visible
                           /\ id \in DOMAIN mapLayers =>
                                  mapLayers'[id] = mapLayers[id]
      ]_vars

\* C28 witness: under the query 'aB' the group 'water' shows 'lakes' alone;
\* its aggregate control turned 'lakes' on, and the toggleable member
\* 'rivers', hidden by the filter, is still off.
C28_Witness ==
    /\ last.op = "toggleAllLayers" /\ last.target = "water"
    /\ last.arg = TRUE
    /\ searchQuery = <<"a", "B">>
    /\ last.input = <<"lakes">>
    /\ "lakes" \in TouchedIn(Effects)
    /\ LayerOf(layers, "lakes").visible
    /\ LayerOf(layers, "rivers").toggleable = TRUE
    /\ ~LayerOf(layers, "rivers").visible
    /\ mapLayers["rivers"].visibility = "none"

\* --------------------------------------- properties: toggleable

\* C29: no step of the panel (a row's checkbox, slider, zoom or info
\* button, a group's aggregate control, the search box, collapse and
\* expand) changes the visible flag of a layer whose toggleable is false,
\* notifies a visibility change for it, or changes the visibility of its
\* map layer or calls setLayoutProperty for it.
C29_NonToggleableLayersAreLeftAlone ==
    [][ \A i \in DOMAIN layers :
            layers[i].toggleable = FALSE =>
                LET id == layers[i].id IN
                /\ LayerOf(layers', id).visible = layers[i].visible
                /\ id \in DOMAIN mapLayers =>
                       mapLayers'[id].visibility = mapLayers[id].visibility
                /\ last' # last =>
                       \A k \in DOMAIN last'.effects :
                           last'.effects[k].layer = id =>
                               /\ last'.effects[k].name # "layer-visibility-change"
                               /\ last'.effects[k].name # "setLayoutProperty"
                               /\ ~(/\ last'.effects[k].kind = "write"
                                     /\ last'.effects[k].name = "visible")
      ]_vars

\* C29 witness: the slider of 'towns', whose checkbox is disabled, was
\* moved on the loaded map; the layer is as visible as it was, in the
\* descriptor and on the map, and the log has its opacity notification only.
C29_Witness ==
    /\ last.op = "updateOpacity" /\ last.target = "towns" /\ last.ready
    /\ LayerOf(layers, "towns").toggleable = FALSE
    /\ LayerOf(layers, "towns").opacity = 57
    /\ LayerOf(layers, "towns").visible
    /\ mapLayers["towns"].visibility = "visible"
    /\ \E k \in DOMAIN Effects :
           Effects[k].kind = "emit" /\ Effects[k].layer = "towns"

\* ------------------------------------------- properties: map load

\* C30: a row's checkbox or slider used before the map is ready writes the
\* descriptor and notifies the host, and calls the map for nothing; the
\* 'load' notification that makes the map ready runs no handler of the
\* panel and leaves every map layer as the host's own load handler added
\* it (visibility as in the style, no opacity set), whatever the
\* descriptors say by then.
C30_ChangesBeforeLoadAreNotReplayed ==
    [][ /\ ( /\ last' # last /\ ~mapReady
             /\ last'.op \in {"toggleVisibility", "updateOpacity"} ) =>
               /\ last'.op = "toggleVisibility" =>
                      /\ LayerOf(layers', last'.target).visible = last'.arg
                      /\ \E k \in DOMAIN last'.effects :
                             /\ last'.effects[k].kind = "emit"
                             /\ last'.effects[k].name = "layer-visibility-change"
                             /\ last'.effects[k].layer = last'.target
                             /\ last'.effects[k].value = last'.arg
               /\ last'.op = "updateOpacity" =>
                      /\ LayerOf(layers', last'.target).opacity = last'.arg
                      /\ \E k \in DOMAIN last'.effects :
                             /\ last'.effects[k].kind = "emit"
                             /\ last'.effects[k].name = "layer-opacity-change"
                             /\ last'.effects[k].layer = last'.target
                             /\ last'.effects[k].value = last'.arg
               /\ \A k \in DOMAIN last'.effects : last'.effects[k].kind # "map"
               /\ mapLayers' = mapLayers
        /\ (~mapReady /\ mapReady') =>
               /\ last' = last /\ layers' = layers
               /\ \A id \in DOMAIN mapLayers' :
                      /\ mapLayers'[id].visibility = HostStyle[id]
                      /\ mapLayers'[id].paint = <<>>
      ]_vars

\* C30 witness: 'parcels' was turned on before the map was ready; the map
\* has loaded since, the descriptor says visible and the map layer is
\* still hidden.
C30_Witness ==
    /\ mapReady
    /\ last.op = "toggleVisibility" /\ ~last.ready
    /\ last.target = "parcels" /\ last.arg = TRUE
    /\ LayerOf(layers, "parcels").visible
    /\ mapLayers["parcels"].visibility = "none"

====
